---- MODULE Spec2Model ----
(***************************************************************************)
(* Trace-context propagation into structured logs: the process-wide        *)
(* AppLogger (lib/logger.ts) with its pino mixin, and the Hono tracing     *)
(* middleware with its downstream handlers (src/index.ts).                 *)
(*                                                                         *)
(* The OpenTelemetry context is the AsyncLocalStorage one: every logical   *)
(* task (a request's async continuation chain, or the top-level "main"     *)
(* code) owns a stack of the spans whose startActiveSpan callbacks it is   *)
(* running; context.active() of a task is the top of its own stack.        *)
(***************************************************************************)
EXTENDS Integers, Sequences, FiniteSets, TLC

\* ---------------------------------------------------------------- bounds
MaxCalls == 3          \* calls of getLogger() / initialize() explored
MaxChildren == 1       \* child spans the handlers start, all requests together
MaxFlags == 255        \* largest trace-flags value explored in SpecFlags

\* ------------------------------------------------------------ value sets
\* JavaScript's undefined/null and a present value v, kept apart from v itself
None == <<>>
Some(v) == <<v>>
Val(o) == o[1]

Requests == {"A", "B"}                 \* the two concurrent requests
Main == "main"                         \* code running outside any request
Tasks == Requests \cup {Main}

\* process.env.HYPERDX_API_KEY / HYPERDX_SERVICE: unset, empty, or set
EnvValues == {None, Some(""), Some("set")}

\* options bundles passed to the logging calls: the two of the GET / handler,
\* and a call without options
InfoOptions == Some([data |-> "Hello Hono 1!", tag |-> "hello-hono"])
ErrorOptions == Some([data |-> "Error Hono 1!", tag |-> "error-hono"])
WarnOptions == None

\* error objects a handler may throw: identity (id) and message are separate
Errors == {[id |-> "e1", message |-> "boom"]}

\* trace-flags values of the spans of the request model
FlagSamples == {Some(1)}
AllFlags == {Some(v) : v \in 0..MaxFlags} \cup {None}

VARIABLES
  env,          \* [apiKey, service]: the process environment
  instances,    \* AppLogger objects ever constructed: <<[isInitialized, pinoLogger]>>
  globalLogger, \* module variable globalLogger: None (null) or Some(index)
  returned,     \* indices of the instances getLogger() has returned to a caller
  effects,      \* how often validation / HyperDX.init / pino.transport have run
  calls,        \* number of getLogger()/initialize() calls made so far
  lastCall,     \* [op, result] of the most recent logger API call
  logger,       \* the exported const `logger`: "unevaluated" until line 129
                \* runs, "failed" when it threw, else "bound"
  spans,        \* every span ever started
  ctx,          \* ctx[t]: stack of span indices active in task t (top = last)
  pc,           \* pc[r]: where request r is in the middleware
  pending,      \* pending[r]: settlement of `await next()`
  outcome,      \* outcome[r]: what the middleware's promise settled with
  children,     \* number of child spans the handlers have started
  clock,        \* logical time: advances with every tracing step
  emitted       \* the record the latest logging call handed to the sinks,
                \* with the task that made the call: None or Some([by, rec])

traceVars == <<spans, ctx, pc, pending, outcome, children, clock>>
vars == <<env, instances, globalLogger, returned, effects, calls, lastCall, logger,
          spans, ctx, pc, pending, outcome, children, clock, emitted>>

\* ------------------------------------------------------------ JS helpers
\* JavaScript truthiness of an environment string
Truthy(o) == o # None /\ Val(o) # ""

HexDigits == <<"0", "1", "2", "3", "4", "5", "6", "7",
               "8", "9", "a", "b", "c", "d", "e", "f">>

\* Number.prototype.toString(16) for a non-negative integer, as a sequence
\* of one-character strings
RECURSIVE ToString16(_)
ToString16(n) ==
  IF n < 16 THEN <<HexDigits[n + 1]>>
  ELSE ToString16(n \div 16) \o <<HexDigits[(n % 16) + 1]>>

\* a ?? b
Coalesce(a, b) == IF a = None THEN b ELSE Val(a)

\* --------------------------------------------- AppLogger (lib/logger.ts)
NewAppLogger == [isInitialized |-> FALSE, pinoLogger |-> None]

\* initialize(): the validation at lines 15-20 throws
InitializeThrows(insts, i) ==
  /\ ~insts[i].isInitialized
  /\ (~Truthy(env.apiKey) \/ ~Truthy(env.service))

\* the sinks handed to pino.transport
PinoTargets ==
  <<"pino-pretty">> \o
  (IF Truthy(env.apiKey) THEN <<"@hyperdx/node-logger">> ELSE <<>>)

\* initialize(): the instances after the call
InitializeInstances(insts, i) ==
  IF insts[i].isInitialized \/ InitializeThrows(insts, i) THEN insts
  ELSE [insts EXCEPT ![i] = [isInitialized |-> TRUE,
                             pinoLogger |-> Some([targets |-> PinoTargets])]]

\* initialize(): the side-effect counters after the call
InitializeEffects(insts, i) ==
  IF insts[i].isInitialized THEN effects
  ELSE IF InitializeThrows(insts, i)
       THEN [effects EXCEPT !.validations = @ + 1]
       ELSE [validations |-> effects.validations + 1,
             hyperdxInits |-> effects.hyperdxInits + 1,
             transports |-> effects.transports + 1]

\* getLogger(), including the call that initialises the exported `logger`
GetLogger ==
  /\ calls < MaxCalls
  /\ calls' = calls + 1
  /\ IF globalLogger = None
     THEN LET i == Len(instances) + 1
              fresh == Append(instances, NewAppLogger)
          IN /\ globalLogger' = Some(i)
             /\ instances' = InitializeInstances(fresh, i)
             /\ effects' = InitializeEffects(fresh, i)
             /\ IF InitializeThrows(fresh, i)
                THEN /\ returned' = returned
                     /\ lastCall' = [op |-> "getLogger", result |-> "ConfigError"]
                     /\ logger' = IF logger = "unevaluated" THEN "failed" ELSE logger
                ELSE /\ returned' = returned \cup {i}
                     /\ lastCall' = [op |-> "getLogger", result |-> "returned"]
                     /\ logger' = IF logger = "unevaluated" THEN "bound" ELSE logger
     ELSE /\ returned' = returned \cup {Val(globalLogger)}
          /\ lastCall' = [op |-> "getLogger", result |-> "returned"]
          /\ logger' = IF logger = "unevaluated" THEN "bound" ELSE logger
          /\ UNCHANGED <<globalLogger, instances, effects>>
  /\ UNCHANGED <<env, emitted>>
  /\ UNCHANGED traceVars

\* initialize() called again on an instance getLogger() returned
Initialize(i) ==
  /\ calls < MaxCalls
  /\ calls' = calls + 1
  /\ i \in returned
  /\ instances' = InitializeInstances(instances, i)
  /\ effects' = InitializeEffects(instances, i)
  /\ lastCall' = [op |-> "initialize",
                  result |-> IF InitializeThrows(instances, i)
                             THEN "ConfigError" ELSE "returned"]
  /\ UNCHANGED <<env, globalLogger, returned, logger, emitted>>
  /\ UNCHANGED traceVars

\* ------------------------------------------ OpenTelemetry context, spans
\* trace.getSpan(context): the span a context carries, if any
GetSpan(c) == IF c = <<>> THEN None ELSE Some(c[Len(c)])

\* (mutant) one context slot for the whole worker: the context entered last
ContextActiveShared(t) ==
  LET live == {q \in Tasks : ctx[q] # <<>>}
  IN IF live = {} THEN <<>>
     ELSE ctx[CHOOSE q \in live :
                \A o \in live : ctx[o][Len(ctx[o])] <= ctx[q][Len(ctx[q])]]

\* context.active() as seen by the code running in task t
ContextActive(t) == ctx[t]

\* (mutant) the flags padded to two hex digits, as padStart(2, "0") would
TraceFlagsPadded(sc) ==
  LET hex == ToString16(Coalesce(sc.traceFlags, 0))
  IN IF Len(hex) < 2 THEN <<"0">> \o hex ELSE hex

\* the `0${...toString(16)}` template literal of the mixin
TraceFlagsField(sc) == <<"0">> \o ToString16(Coalesce(sc.traceFlags, 0))

\* (mutant) span_id copied from the wrong property
MixinFieldsWrongId(sc) ==
  [trace_id |-> sc.traceId,
   span_id |-> sc.traceId,
   trace_flags |-> <<"0">> \o ToString16(Coalesce(sc.traceFlags, 0))]

\* the three fields the mixin copies out of a span context
MixinFields(sc) ==
  [trace_id |-> sc.traceId,
   span_id |-> sc.spanId,
   trace_flags |-> TraceFlagsField(sc)]

\* (mutant) falls back to the all-zero invalid span context when no span
\* is active
MixinInvalidContext(t) ==
  IF ctx[t] = <<>>
  THEN [trace_id |-> <<"trace", 0>>, span_id |-> <<"span", 0>>,
        trace_flags |-> <<"0", "0">>]
  ELSE LET sc == spans[ctx[t][Len(ctx[t])]].sc
       IN IF sc = None THEN <<>>
          ELSE [trace_id |-> Val(sc).traceId, span_id |-> Val(sc).spanId,
                trace_flags |-> <<"0">> \o ToString16(Coalesce(Val(sc).traceFlags, 0))]

\* the pino mixin, run by the logging call of task t
Mixin(t) ==
  LET span == GetSpan(ContextActive(t))
  IN IF span = None THEN <<>>
     ELSE LET sc == spans[Val(span)].sc
          IN IF sc = None THEN <<>> ELSE MixinFields(Val(sc))

\* tracer.startActiveSpan: the span created by task t
NewSpan(t, name, flags, hasSC) ==
  LET parent == GetSpan(ContextActive(t))
      psc == IF parent = None THEN None ELSE spans[Val(parent)].sc
      id == Len(spans) + 1
  IN [name |-> name,
      owner |-> t,
      parent |-> parent,
      sc |-> IF ~hasSC THEN None
             ELSE Some([traceId |-> IF psc = None THEN <<"trace", id>>
                                    ELSE Val(psc).traceId,
                        spanId |-> <<"span", id>>,
                        traceFlags |-> IF psc = None THEN flags
                                       ELSE Val(psc).traceFlags]),
      callback |-> "running",
      status |-> [code |-> 0],
      exceptions |-> <<>>,
      endCalls |-> 0,
      ended |-> FALSE]

\* span.setStatus: ignored once the span has ended
SetStatus(s, status) == IF s.ended THEN s ELSE [s EXCEPT !.status = status]

\* span.recordException: ignored once the span has ended
RecordException(s, e) ==
  IF s.ended THEN s ELSE [s EXCEPT !.exceptions = Append(@, e)]

\* span.end()
End(s) == [s EXCEPT !.ended = TRUE, !.endCalls = @ + 1]

\* the function passed to startActiveSpan settles (returns or throws)
Settle(s, how) == [s EXCEPT !.callback = how]

\* ------------------------------------------------------- logging calls
\* task t has code running that can make a call: top-level code, a handler
\* between two awaits, or code outside the middleware's callback
CanRun(t) == IF t = Main THEN TRUE ELSE pc[t] \in {"handler", "done"}

\* the object createLog hands to pino, merged with the mixin's fields
LogRecord(level, t, options) ==
  [level |-> level,
   time |-> clock,
   msg |-> "message",
   data |-> IF options = None THEN "{}" ELSE Val(options).data,
   tag |-> IF options = None THEN "" ELSE Val(options).tag] @@ Mixin(t)

\* createLog(level, message, options) on instance i, called by task t
CreateLog(level, t, i, options) ==
  /\ CanRun(t)
  /\ i \in returned
  /\ IF instances[i].pinoLogger = None
     THEN /\ lastCall' = [op |-> level, result |-> "TypeError"]
          /\ UNCHANGED emitted
     ELSE /\ emitted' = Some([by |-> t, rec |-> LogRecord(level, t, options)])
          /\ lastCall' = [op |-> level, result |-> "returned"]
  /\ UNCHANGED <<env, instances, globalLogger, returned, effects, calls, logger>>
  /\ UNCHANGED traceVars

Info(t, i) == CreateLog("info", t, i, InfoOptions)
Warn(t, i) == CreateLog("warn", t, i, WarnOptions)
Error(t, i) == CreateLog("error", t, i, ErrorOptions)

\* --------------------------------------- tracing middleware (index.ts)
loggerState == <<env, instances, globalLogger, returned, effects, calls, lastCall, logger, emitted>>

\* app.use("*", ...): a request enters, startActiveSpan opens its span and
\* runs the callback up to `await next()`
StartRequest(r, flags) ==
  /\ logger = "bound"
  /\ pc[r] = "idle"
  /\ spans' = Append(spans, NewSpan(r, "GET /", flags, TRUE))
  /\ ctx' = [ctx EXCEPT ![r] = Append(@, Len(spans) + 1)]
  /\ pc' = [pc EXCEPT ![r] = "handler"]
  /\ UNCHANGED <<pending, outcome, children>>
  /\ clock' = clock + 1
  /\ UNCHANGED loggerState

\* a handler starts a child span with tracer.startActiveSpan
StartChild(r, flags, hasSC) ==
  /\ pc[r] = "handler"
  /\ children < MaxChildren
  /\ spans' = Append(spans, NewSpan(r, "external-api-call", flags, hasSC))
  /\ ctx' = [ctx EXCEPT ![r] = Append(@, Len(spans) + 1)]
  /\ children' = children + 1
  /\ UNCHANGED <<pc, pending, outcome>>
  /\ clock' = clock + 1
  /\ UNCHANGED loggerState

\* span.end() inside the child span's callback
EndChild(r) ==
  /\ pc[r] = "handler"
  /\ Len(ctx[r]) > 1
  /\ LET s == ctx[r][Len(ctx[r])]
     IN /\ ~spans[s].ended
        /\ spans' = [spans EXCEPT ![s] = End(@)]
  /\ UNCHANGED <<ctx, pc, pending, outcome, children>>
  /\ clock' = clock + 1
  /\ UNCHANGED loggerState

\* (mutant) the callback returns but the outer context is not restored
ExitChildNoRestore(r) ==
  /\ pc[r] = "handler"
  /\ Len(ctx[r]) > 1
  /\ spans[ctx[r][Len(ctx[r])]].callback = "running"
  /\ spans' = [spans EXCEPT ![ctx[r][Len(ctx[r])]] = [@ EXCEPT !.callback = "returned"]]
  /\ clock' = clock + 1
  /\ UNCHANGED <<ctx, pc, pending, outcome, children>>
  /\ UNCHANGED <<env, instances, globalLogger, returned, effects, calls, lastCall, logger, emitted>>

\* the child span's callback returns: context.with restores the outer context
ExitChild(r) ==
  /\ pc[r] = "handler"
  /\ Len(ctx[r]) > 1
  /\ spans' = [spans EXCEPT ![ctx[r][Len(ctx[r])]] = Settle(@, "returned")]
  /\ ctx' = [ctx EXCEPT ![r] = SubSeq(@, 1, Len(@) - 1)]
  /\ UNCHANGED <<pc, pending, outcome, children>>
  /\ clock' = clock + 1
  /\ UNCHANGED loggerState

\* the handler chain returns its response: next() fulfils
HandlerReturn(r) ==
  /\ pc[r] = "handler"
  /\ Len(ctx[r]) = 1
  /\ pending' = [pending EXCEPT ![r] = [kind |-> "fulfilled", value |-> "Hello Hono!"]]
  /\ pc' = [pc EXCEPT ![r] = "settled"]
  /\ UNCHANGED <<spans, ctx, outcome, children>>
  /\ clock' = clock + 1
  /\ UNCHANGED loggerState

\* the handler chain throws e (out of any child callback it is in): next() rejects
HandlerThrow(r, e) ==
  /\ pc[r] = "handler"
  /\ pending' = [pending EXCEPT ![r] = [kind |-> "rejected", error |-> e]]
  /\ spans' = [s \in DOMAIN spans |->
                 IF s \in {ctx[r][k] : k \in 2..Len(ctx[r])}
                 THEN Settle(spans[s], "threw") ELSE spans[s]]
  /\ ctx' = [ctx EXCEPT ![r] = <<@[1]>>]
  /\ pc' = [pc EXCEPT ![r] = "settled"]
  /\ UNCHANGED <<outcome, children>>
  /\ clock' = clock + 1
  /\ UNCHANGED loggerState

\* (mutant) the span is ended before its status is set
ReturnPathEndFirst(s, result) ==
  [span |-> Settle(SetStatus(End(s), [code |-> 1]), "returned"),
   settle |-> [kind |-> "fulfilled", value |-> result]]

\* try { result = await next(); span.setStatus({code: 1}); return result }
\* finally { span.end() }
ReturnPath(s, result) ==
  [span |-> Settle(End(SetStatus(s, [code |-> 1])), "returned"),
   settle |-> [kind |-> "fulfilled", value |-> result]]

\* (mutant) the catch block throws a new error carrying the message
RethrowWrapped(error) == [id |-> "wrapped", message |-> error.message]

\* the error the catch block rethrows
Rethrow(error) == error

\* catch (error) { span.recordException(error); span.setStatus({code: 2,
\* message}); throw error } finally { span.end() }
CatchPath(s, error) ==
  [span |-> Settle(End(SetStatus(RecordException(s, error),
                                 [code |-> 2, message |-> error.message])),
                   "threw"),
   settle |-> [kind |-> "rejected", error |-> Rethrow(error)]]

\* the callback resumes after `await next()` fulfilled
MiddlewareReturn(r) ==
  /\ pc[r] = "settled"
  /\ pending[r].kind = "fulfilled"
  /\ LET s == ctx[r][1]
         res == ReturnPath(spans[s], pending[r].value)
     IN /\ spans' = [spans EXCEPT ![s] = res.span]
        /\ outcome' = [outcome EXCEPT ![r] = res.settle]
  /\ ctx' = [ctx EXCEPT ![r] = <<>>]
  /\ pc' = [pc EXCEPT ![r] = "done"]
  /\ UNCHANGED <<pending, children>>
  /\ clock' = clock + 1
  /\ UNCHANGED loggerState

\* the callback resumes after `await next()` rejected
MiddlewareCatch(r) ==
  /\ pc[r] = "settled"
  /\ pending[r].kind = "rejected"
  /\ LET s == ctx[r][1]
         res == CatchPath(spans[s], pending[r].error)
     IN /\ spans' = [spans EXCEPT ![s] = res.span]
        /\ outcome' = [outcome EXCEPT ![r] = res.settle]
  /\ ctx' = [ctx EXCEPT ![r] = <<>>]
  /\ pc' = [pc EXCEPT ![r] = "done"]
  /\ UNCHANGED <<pending, children>>
  /\ clock' = clock + 1
  /\ UNCHANGED loggerState

\* ------------------------------------------------------- specifications
InitTracing ==
  /\ instances = <<>>
  /\ globalLogger = None
  /\ returned = {}
  /\ effects = [validations |-> 0, hyperdxInits |-> 0, transports |-> 0]
  /\ calls = 0
  /\ lastCall = [op |-> "none", result |-> "none"]
  /\ logger = "unevaluated"
  /\ spans = <<>>
  /\ ctx = [t \in Tasks |-> <<>>]
  /\ pc = [r \in Requests |-> "idle"]
  /\ pending = [r \in Requests |-> [kind |-> "none"]]
  /\ outcome = [r \in Requests |-> [kind |-> "none"]]
  /\ children = 0
  /\ clock = 0
  /\ emitted = None

\* logger lifecycle: any environment, any sequence of getLogger(),
\* initialize() and logging calls from top-level code
Init ==
  /\ env \in [apiKey : EnvValues, service : EnvValues]
  /\ InitTracing

Next ==
  \/ GetLogger
  \/ \E i \in returned : Initialize(i)
  \/ \E i \in returned : Info(Main, i)
  \/ \E i \in returned : Warn(Main, i)
  \/ \E i \in returned : Error(Main, i)

Spec == Init /\ [][Next]_vars

\* request tracing: a configured environment, the module evaluated once,
\* two requests served concurrently
InitServe ==
  /\ env = [apiKey |-> Some("set"), service |-> Some("set")]
  /\ InitTracing

\* evaluation of lib/logger.ts: `export const logger = getLogger()`
LoadLogger == logger = "unevaluated" /\ GetLogger

NextServe ==
  \/ LoadLogger
  \/ \E t \in Tasks, i \in returned : Info(t, i)
  \/ \E t \in Tasks, i \in returned : Warn(t, i)
  \/ \E t \in Tasks, i \in returned : Error(t, i)
  \/ \E r \in Requests, f \in FlagSamples : StartRequest(r, f)
  \/ \E r \in Requests, f \in FlagSamples, s \in BOOLEAN : StartChild(r, f, s)
  \/ \E r \in Requests : EndChild(r)
  \/ \E r \in Requests : ExitChild(r)
  \/ \E r \in Requests : HandlerReturn(r)
  \/ \E r \in Requests, e \in Errors : HandlerThrow(r, e)
  \/ \E r \in Requests : MiddlewareReturn(r)
  \/ \E r \in Requests : MiddlewareCatch(r)

SpecServe == InitServe /\ [][NextServe]_vars

\* trace-flags rendering: one request whose span carries any flags value
InitFlags == InitServe

NextFlags ==
  \/ LoadLogger
  \/ \E f \in AllFlags : StartRequest("A", f)
  \/ \E i \in returned : Info("A", i)
  \/ HandlerReturn("A")
  \/ MiddlewareReturn("A")

SpecFlags == InitFlags /\ [][NextFlags]_vars

\* ================================================================ claims
LogOps == {"info", "warn", "error"}
TraceFields == {"trace_id", "span_id", "trace_flags"}

\* the API key or the service name is missing from the environment
ConfigMissing == ~Truthy(env.apiKey) \/ ~Truthy(env.service)

ActiveSpan(t) ==
  LET S == {s \in DOMAIN spans : spans[s].owner = t /\ spans[s].callback = "running"}
  IN IF S = {} THEN None ELSE Some(CHOOSE s \in S : \A q \in S : q <= s)

\* the span the middleware opened for request r
RequestSpan(r) ==
  CHOOSE s \in DOMAIN spans : spans[s].owner = r /\ spans[s].parent = None

Started(r) == \E s \in DOMAIN spans : spans[s].owner = r /\ spans[s].parent = None

\* the latest logging call was made by task t and no tracing step has
\* happened since
JustEmitted(t) ==
  /\ emitted # None
  /\ Val(emitted).by = t
  /\ Val(emitted).rec.time = clock

Rec == Val(emitted).rec

\* ------------------------------------------------------------------ C1
\* C1: a record emitted while a span with trace id T and span id S is the
\* active span of the calling task carries exactly trace_id = T, span_id = S.
C1_ActiveSpanIds ==
  \A t \in Tasks :
    (/\ JustEmitted(t)
     /\ ActiveSpan(t) # None
     /\ spans[Val(ActiveSpan(t))].sc # None)
    => LET sc == Val(spans[Val(ActiveSpan(t))].sc)
       IN /\ TraceFields \subseteq DOMAIN Rec
          /\ Rec.trace_id = sc.traceId
          /\ Rec.span_id = sc.spanId

\* a request logs inside its span after some other span has already ended
C1_Witness ==
  \E r \in Requests :
    /\ JustEmitted(r)
    /\ ActiveSpan(r) # None
    /\ spans[Val(ActiveSpan(r))].sc # None
    /\ Rec.span_id = Val(spans[Val(ActiveSpan(r))].sc).spanId
    /\ \E s \in DOMAIN spans : spans[s].ended

\* ------------------------------------------------------------------ C2
\* C2: a record emitted while no span is active in the calling task carries
\* none of trace_id, span_id, trace_flags.
C2_NoSpanNoFields ==
  \A t \in Tasks :
    (JustEmitted(t) /\ ActiveSpan(t) = None)
    => DOMAIN Rec \cap TraceFields = {}

\* a request logs after its span's callback has finished while the other
\* request's span is still active
C2_Witness ==
  \E r \in Requests, q \in Requests :
    /\ r # q
    /\ JustEmitted(r)
    /\ pc[r] = "done"
    /\ ActiveSpan(r) = None
    /\ ActiveSpan(q) # None
    /\ DOMAIN Rec \cap TraceFields = {}

\* ------------------------------------------------------------------ C3
\* C3: with two requests interleaved, a record emitted by a request reports
\* a span of that request (its request span or a child of it) and never a
\* span of the other request.
C3_NoCrossRequestContext ==
  \A r \in Requests :
    JustEmitted(r) =>
      /\ "span_id" \in DOMAIN Rec =>
           /\ \E s \in DOMAIN spans :
                /\ spans[s].owner = r
                /\ spans[s].sc # None
                /\ Val(spans[s].sc).spanId = Rec.span_id
                /\ Val(spans[s].sc).traceId = Rec.trace_id
           /\ \A s \in DOMAIN spans :
                (spans[s].owner # r /\ spans[s].sc # None)
                => /\ Val(spans[s].sc).spanId # Rec.span_id
                   /\ Val(spans[s].sc).traceId # Rec.trace_id
      /\ (/\ pc[r] = "handler"
          /\ \A s \in DOMAIN spans : spans[s].owner = r => spans[s].sc # None)
         => "span_id" \in DOMAIN Rec

\* A was suspended in its handler, B's request started after A's and is
\* still in its handler, and A, resumed, logs with its own span
C3_Witness ==
  /\ pc["A"] = "handler"
  /\ pc["B"] = "handler"
  /\ RequestSpan("A") < RequestSpan("B")
  /\ JustEmitted("A")
  /\ "span_id" \in DOMAIN Rec
  /\ Rec.span_id = Val(spans[RequestSpan("A")].sc).spanId

\* ------------------------------------------------------------------ C4
\* C4: when the handler chain throws E, E is recorded on the request span,
\* the span's status is error with E's message, the span is ended, and the
\* very same E propagates to the middleware's caller.
C4_SameErrorPropagates ==
  \A r \in Requests :
    (pc[r] = "done" /\ pending[r].kind = "rejected")
    => LET e == pending[r].error
           s == spans[RequestSpan(r)]
       IN /\ outcome[r] = [kind |-> "rejected", error |-> e]
          /\ s.exceptions = <<e>>
          /\ s.status = [code |-> 2, message |-> e.message]
          /\ s.ended

C4_Witness ==
  \E r \in Requests :
    /\ pc[r] = "done"
    /\ pending[r].kind = "rejected"
    /\ outcome[r].kind = "rejected"

\* ------------------------------------------------------------------ C5
ChildSpans(r) ==
  {s \in DOMAIN spans : spans[s].owner = r /\ spans[s].parent # None}

\* a child span with well-formed identifiers whose parent has them too
WellFormedChild(c) ==
  /\ spans[c].sc # None
  /\ spans[Val(spans[c].parent)].sc # None

\* C5 as claimed: records report the child's span id (and the parent's trace
\* id) until the child is ended with span.end(), and the parent's span id
\* once the child has ended while the parent is still open.
C5_RevertsWhenChildEnds ==
  \A r \in Requests :
    (JustEmitted(r) /\ pc[r] = "handler") =>
      \A c \in ChildSpans(r) :
        (WellFormedChild(c) /\ \A d \in ChildSpans(r) : d <= c) =>
          LET p == Val(spans[c].parent)
          IN /\ "span_id" \in DOMAIN Rec
             /\ IF ~spans[c].ended
                THEN /\ Rec.span_id = Val(spans[c].sc).spanId
                     /\ Rec.trace_id = Val(spans[p].sc).traceId
                ELSE ~spans[p].ended => Rec.span_id = Val(spans[p].sc).spanId

\* C5 amended: records emitted inside the child's startActiveSpan callback
\* report the child's span id and the parent's trace id, whether or not
\* span.end() has been called; records emitted once the innermost running
\* callback is the parent's again report the parent's span id.
C5_RevertsWhenCallbackReturns ==
  \A r \in Requests :
    (JustEmitted(r) /\ pc[r] = "handler") =>
      \A c \in ChildSpans(r) :
        WellFormedChild(c) =>
          LET p == Val(spans[c].parent)
          IN /\ ActiveSpan(r) = Some(c)
                => /\ "span_id" \in DOMAIN Rec
                   /\ Rec.span_id = Val(spans[c].sc).spanId
                   /\ Rec.span_id # Val(spans[p].sc).spanId
                   /\ Rec.trace_id = Val(spans[p].sc).traceId
             /\ (spans[c].callback # "running" /\ ActiveSpan(r) = Some(p))
                => /\ "span_id" \in DOMAIN Rec
                   /\ Rec.span_id = Val(spans[p].sc).spanId
                   /\ Rec.trace_id = Val(spans[p].sc).traceId

\* a record emitted after span.end() of the child, still inside its callback
C5_Witness ==
  \E r \in Requests :
    /\ JustEmitted(r)
    /\ pc[r] = "handler"
    /\ \E c \in ChildSpans(r) :
         /\ WellFormedChild(c)
         /\ ActiveSpan(r) = Some(c)
         /\ spans[c].ended
         /\ Rec.span_id = Val(spans[c].sc).spanId

\* ----------------------------------------------------------------- C10
\* C10: every request span is ended exactly once, on both paths, after its
\* status was set: ok when the handler returned, error when it threw; it is
\* not ended before the middleware resumes.
C10_EndedOnceWithStatus ==
  \A r \in Requests :
    Started(r) =>
      LET s == spans[RequestSpan(r)]
      IN /\ pc[r] = "done" => s.ended
         /\ s.ended =>
              /\ pc[r] = "done"
              /\ s.endCalls = 1
              /\ s.status.code # 0
              /\ pending[r].kind = "fulfilled" => s.status = [code |-> 1]
              /\ pending[r].kind = "rejected" => s.status.code = 2
         /\ ~s.ended => s.endCalls = 0 /\ s.status.code = 0

\* a request whose handler logged at error level and returned: status ok
C10_Witness ==
  \E r \in Requests :
    /\ pc[r] = "done"
    /\ pending[r].kind = "fulfilled"
    /\ spans[RequestSpan(r)].status = [code |-> 1]
    /\ spans[RequestSpan(r)].endCalls = 1
    /\ emitted # None
    /\ Val(emitted).by = r
    /\ Rec.level = "error"
    /\ "span_id" \in DOMAIN Rec
    /\ Rec.span_id = Val(spans[RequestSpan(r)].sc).spanId

\* ------------------------------------------------------------------ C9
LowerHex == <<"0", "1", "2", "3", "4", "5", "6", "7",
              "8", "9", "a", "b", "c", "d", "e", "f">>

\* the number a sequence of lowercase hexadecimal digits denotes
RECURSIVE HexValue(_)
HexValue(ds) ==
  IF ds = <<>> THEN 0
  ELSE 16 * HexValue(SubSeq(ds, 1, Len(ds) - 1))
       + (CHOOSE i \in 1..16 : LowerHex[i] = ds[Len(ds)]) - 1

\* C9: for a flags value v the trace_flags field is "0" followed by the
\* lowercase hexadecimal rendering of v without padding (0 -> "00",
\* 1 -> "01", 255 -> "0ff"); an absent value renders as 0 does.
C9_TraceFlagsRendering ==
  (emitted # None /\ "trace_flags" \in DOMAIN Rec) =>
    \A s \in DOMAIN spans :
      (spans[s].sc # None /\ Val(spans[s].sc).spanId = Rec.span_id) =>
        LET flags == Val(spans[s].sc).traceFlags
            v == IF flags = None THEN 0 ELSE Val(flags)
            tf == Rec.trace_flags
            hex == Tail(tf)
        IN /\ Len(tf) >= 2
           /\ tf[1] = "0"
           /\ \A k \in 1..Len(hex) : \E i \in 1..16 : LowerHex[i] = hex[k]
           /\ HexValue(hex) = v
           /\ (Len(hex) = 1 \/ hex[1] # "0")
           /\ v = 0 => tf = <<"0", "0">>
           /\ v = 1 => tf = <<"0", "1">>
           /\ v = 255 => tf = <<"0", "f", "f">>

\* the 3-character rendering of 255
C9_Witness ==
  /\ emitted # None
  /\ "trace_flags" \in DOMAIN Rec
  /\ Rec.trace_flags = <<"0", "f", "f">>
  /\ Val(spans[RequestSpan("A")].sc).traceFlags = Some(255)

====
